---- MODULE Spec2Model ----
(***************************************************************************)
(* Model of the coordinate maintenance scripts of Gilly-Geo-Guesser:       *)
(*   - apply_verified_coords.py: apply_fix (regex substitution on a text)  *)
(*     and the PATCHES loop with its single final write;                   *)
(*   - validate_coords.py: parse_towns, apply_fix (literal snippet first,  *)
(*     regex otherwise, file read and written per call) and main.          *)
(* The host document index.html is a sequence of one-character strings,    *)
(* so that substring search, \s* and prefix matches are those of the text. *)
(* A float is the integer number of 1e-5 degrees it denotes.               *)
(***************************************************************************)
EXTENDS Integers, Sequences, FiniteSets, TLC

\* ------------------------------------------------------------------ bounds
\* Most records in a host document.
MaxRecs == 2
\* Most entries in the PATCHES table.
MaxPatches == 2

\* ------------------------------------------------------------------ text
\* Python's \s for the ASCII range.
Whitespace == {" ", "\t", "\n", "\r", "\f"}

DigitChars == <<"0", "1", "2", "3", "4", "5", "6", "7", "8", "9">>

IsDigit(c) == \E k \in 1..10 : DigitChars[k] = c

DigitVal(c) == (CHOOSE k \in 1..10 : DigitChars[k] = c) - 1

\* s[p..q] as a sequence (empty when q < p).
Slice(s, p, q) == IF q < p THEN <<>> ELSE SubSeq(s, p, q)

\* Whether the literal lit occurs in s starting at index p.
IsPrefixAt(s, p, lit) ==
    /\ p >= 1
    /\ p + Len(lit) - 1 <= Len(s)
    /\ \A k \in 1..Len(lit) : s[p + k - 1] = lit[k]

\* The least member of a non-empty set of integers.
MinOf(S) == CHOOSE x \in S : \A y \in S : x <= y

\* The first index at or after p whose character is not in cs (Len(s) + 1
\* when there is none): where a greedy [cs]* that starts at p stops.
SkipWhile(s, p, cs) ==
    MinOf({q \in p..(Len(s) + 1) : q = Len(s) + 1 \/ s[q] \notin cs})

\* Where \s* stops.
SkipWs(s, p) == IF p > Len(s) THEN p ELSE SkipWhile(s, p, Whitespace)

\* Where [\d.]* stops.
SkipNum(s, p) ==
    IF p > Len(s) THEN p
    ELSE SkipWhile(s, p, {DigitChars[k] : k \in 1..10} \cup {"."})

\* The first index at or after p that holds a double quote: where [^"]* stops.
SkipNonQuote(s, p) ==
    IF p > Len(s) THEN p
    ELSE MinOf({q \in p..(Len(s) + 1) : q = Len(s) + 1 \/ s[q] = "\""})

\* The leftmost index at or after p where lit occurs in s, 0 when none:
\* str.find, behind `in` and str.replace(old, new, 1).
Find(s, lit, p) ==
    LET hits == {q \in p..(Len(s) - Len(lit) + 1) : IsPrefixAt(s, q, lit)}
    IN IF hits = {} THEN 0 ELSE MinOf(hits)

\* ------------------------------------------------------------------ floats
\* Units of a float: 1e-5 degree.
Scale == 100000

RECURSIVE Digits(_)
\* The decimal digits of a natural number.
Digits(n) ==
    IF n < 10 THEN <<DigitChars[n + 1]>>
    ELSE Digits(n \div 10) \o <<DigitChars[(n % 10) + 1]>>

RECURSIVE DigitsVal(_)
\* The natural number a digit string denotes (0 for the empty string).
DigitsVal(ds) ==
    IF ds = <<>> THEN 0
    ELSE 10 * DigitsVal(SubSeq(ds, 1, Len(ds) - 1)) + DigitVal(ds[Len(ds)])

\* n as exactly w digits, zero-padded on the left.
RECURSIVE Pad(_, _)
Pad(n, w) ==
    IF w = 0 THEN <<>> ELSE Pad(n \div 10, w - 1) \o <<DigitChars[(n % 10) + 1]>>

RECURSIVE StripZeros(_)
\* A digit string without its trailing zeros.
StripZeros(ds) ==
    IF ds # <<>> /\ ds[Len(ds)] = "0" THEN StripZeros(SubSeq(ds, 1, Len(ds) - 1))
    ELSE ds

\* str(x) of a float: the shortest decimal that reads back as x, always with
\* a fractional part ("32.5", "32.0").
PyStr(v) ==
    LET frac == StripZeros(Pad(v % Scale, 5))
    IN Digits(v \div Scale) \o <<".">> \o (IF frac = <<>> THEN <<"0">> ELSE frac)

\* f'{x:.4f}': rounded to the nearest 1e-4, exactly four decimals (no value
\* of the model lies halfway between two).
Fmt4(v) ==
    LET r == (v + 5) \div 10
    IN Digits(r \div 10000) \o <<".">> \o Pad(r % 10000, 4)

\* float(lit) for a literal <digits>[.<digits>] of at most five decimals.
PyFloat(lit) ==
    LET dot == Find(lit, <<".">>, 1)
        ip == IF dot = 0 THEN lit ELSE Slice(lit, 1, dot - 1)
        fp == IF dot = 0 THEN <<>> ELSE Slice(lit, dot + 1, Len(lit))
        fv == IF Len(fp) >= 5 THEN DigitsVal(SubSeq(fp, 1, 5))
              ELSE DigitsVal(fp \o [k \in 1..(5 - Len(fp)) |-> "0"])
    IN DigitsVal(ip) * Scale + fv

\* ------------------------------------------------------------------ names
\* Place names of the tables, as text.
Turan == <<"T", "u", "r", "a", "n">>
Harish == <<"H", "a", "r", "i", "s", "h">>
Lod == <<"L", "o", "d">>
GehaInterchange ==
    <<"G", "e", "h", "a", " ", "I", "n", "t", "e", "r", "c", "h", "a", "n", "g", "e">>

\* The members of POLYGON_TOWNS and SKIP_NAMES that occur in the documents below.
POLYGON_TOWNS == {Lod}
SKIP_NAMES == {GehaInterchange}

\* ------------------------------------------------------------------ apply_fix
NameKey == <<"n", "a", "m", "e", ":", "\"">>
LatKey == <<"l", "a", "t", ":">>
LngKey == <<"l", "n", "g", ":">>

NoMatch == [ok |-> FALSE, latFrom |-> 0, latTo |-> 0, lngFrom |-> 0, lngTo |-> 0]

\* A match, starting at index p, of the pattern both apply_fix build:
\*   (name:"<name>",\s*lat:)<olat>(,\s*lng:)<olng>
\* with name, olat and olng escaped, hence literal. latFrom..latTo and
\* lngFrom..lngTo are the spans outside the two groups.
FixMatchAt(s, p, name, olat, olng) ==
    LET pre == NameKey \o name \o <<"\"", ",">>
        b == SkipWs(s, p + Len(pre))
        c == b + Len(LatKey)
        d == c + Len(olat)
        e == SkipWs(s, d + 1)
        f == e + Len(LngKey)
    IN IF /\ IsPrefixAt(s, p, pre)
          /\ IsPrefixAt(s, b, LatKey)
          /\ IsPrefixAt(s, c, olat)
          /\ IsPrefixAt(s, d, <<",">>)
          /\ IsPrefixAt(s, e, LngKey)
          /\ IsPrefixAt(s, f, olng)
       THEN [ok |-> TRUE, latFrom |-> c, latTo |-> d - 1,
             lngFrom |-> f, lngTo |-> f + Len(olng) - 1]
       ELSE NoMatch

\* The leftmost match at or after p: what pattern.sub(..., count=1) rewrites.
FixSearch(s, p, name, olat, olng) ==
    LET hits == {q \in p..Len(s) : FixMatchAt(s, q, name, olat, olng).ok}
    IN IF hits = {} THEN NoMatch ELSE FixMatchAt(s, MinOf(hits), name, olat, olng)

\* pattern.sub(lambda m: m.group(1) + f'{new_lat:.4f}' + m.group(2) + f'{new_lng:.4f}',
\*             content, count=1)
RegexSub(content, name, old_lat, old_lng, new_lat, new_lng) ==
    LET m == FixSearch(content, 1, name, PyStr(old_lat), PyStr(old_lng))
    IN IF ~m.ok THEN content
       ELSE Slice(content, 1, m.latFrom - 1) \o Fmt4(new_lat)
            \o Slice(content, m.latTo + 1, m.lngFrom - 1) \o Fmt4(new_lng)
            \o Slice(content, m.lngTo + 1, Len(content))

\* apply_verified_coords.apply_fix: (new_content, changed).
apply_fix(content, name, old_lat, old_lng, new_lat, new_lng) ==
    LET new_content == RegexSub(content, name, old_lat, old_lng, new_lat, new_lng)
    IN [content |-> new_content, changed |-> new_content # content]

\* f'name:"{name}", lat:{lat}, lng:{lng}' with the two numbers already text.
Snippet(name, lat, lng) ==
    NameKey \o name \o <<"\"", ",", " ">> \o LatKey \o lat \o <<",", " ">> \o LngKey \o lng

\* content.replace(old, new, 1), for an old that occurs in content.
ReplaceFirst(content, old, new) ==
    LET p == Find(content, old, 1)
    IN Slice(content, 1, p - 1) \o new \o Slice(content, p + Len(old), Len(content))

\* validate_coords.apply_fix on a file holding `content`: the file afterwards
\* and the returned flag. An unchanged file is not written.
apply_fix_file(content, name, old_lat, old_lng, new_lat, new_lng) ==
    LET old_snippet == Snippet(name, PyStr(old_lat), PyStr(old_lng))
        new_snippet == Snippet(name, Fmt4(new_lat), Fmt4(new_lng))
        new_content ==
            IF Find(content, old_snippet, 1) = 0
            THEN RegexSub(content, name, old_lat, old_lng, new_lat, new_lng)
            ELSE ReplaceFirst(content, old_snippet, new_snippet)
    IN [content |-> new_content, changed |-> new_content # content]

\* ------------------------------------------------------------------ parse_towns
\* A match, starting at index p, of
\*   \{\s*name:"([^"]+)",\s*lat:([\d.]+),\s*lng:([\d.]+)
\* end is the index after the match, 0 when there is none.
TownMatchAt(s, p) ==
    LET a == SkipWs(s, p + 1)
        n1 == a + Len(NameKey)
        n2 == SkipNonQuote(s, n1)
        b == SkipWs(s, n2 + 2)
        c == b + Len(LatKey)
        d == SkipNum(s, c)
        e == SkipWs(s, d + 1)
        f == e + Len(LngKey)
        g == SkipNum(s, f)
    IN IF /\ IsPrefixAt(s, p, <<"{">>)
          /\ IsPrefixAt(s, a, NameKey)
          /\ n2 > n1
          /\ IsPrefixAt(s, n2, <<"\"", ",">>)
          /\ IsPrefixAt(s, b, LatKey)
          /\ d > c
          /\ IsPrefixAt(s, d, <<",">>)
          /\ IsPrefixAt(s, e, LngKey)
          /\ g > f
       THEN [end |-> g, name |-> Slice(s, n1, n2 - 1),
             lat |-> Slice(s, c, d - 1), lng |-> Slice(s, f, g - 1),
             latFrom |-> c, lngFrom |-> f]
       ELSE [end |-> 0, name |-> <<>>, lat |-> <<>>, lng |-> <<>>,
             latFrom |-> 0, lngFrom |-> 0]

\* pattern.finditer(content) from index p: the matches left to right, none
\* overlapping.
RECURSIVE TownsFrom(_, _)
TownsFrom(s, p) ==
    LET hits == {q \in p..Len(s) : TownMatchAt(s, q).end # 0}
    IN IF hits = {} THEN <<>>
       ELSE LET m == TownMatchAt(s, MinOf(hits))
            IN <<m>> \o TownsFrom(s, m.end)

\* [(m.group(1), float(m.group(2)), float(m.group(3))) for m in pattern.finditer(content)]
parse_towns(content) ==
    LET ms == TownsFrom(content, 1)
    IN [k \in 1..Len(ms) |->
          [name |-> ms[k].name, lat |-> PyFloat(ms[k].lat), lng |-> PyFloat(ms[k].lng)]]

\* ------------------------------------------------------------------ documents
\* One record of the host document as text, with the whitespace after each comma.
Record(name, ws1, lat, ws2, lng) ==
    <<"{">> \o NameKey \o name \o <<"\"", ",">> \o ws1 \o LatKey \o lat \o <<",">>
    \o ws2 \o LngKey \o lng \o <<"}", "\n">>

L32_5001 == <<"3", "2", ".", "5", "0", "0", "1">>
L32_50 == <<"3", "2", ".", "5", "0">>
L35_1 == <<"3", "5", ".", "1">>
L35_15 == <<"3", "5", ".", "1", "5">>

\* The record texts the documents are built from: a single-space record, the
\* same record with other whitespace, one whose longitude has one more digit,
\* one whose latitude literal is not what str() prints, and two excluded names.
RecordTexts ==
    << Record(Turan, <<" ">>, L32_5001, <<" ">>, L35_1),
       Record(Turan, <<>>, L32_5001, <<" ", " ">>, L35_1),
       Record(Turan, <<" ">>, L32_5001, <<" ">>, L35_15),
       Record(Harish, <<" ">>, L32_50, <<" ">>, L35_1),
       Record(Lod, <<" ">>, L32_50, <<" ">>, L35_1),
       Record(GehaInterchange, <<" ">>, L32_50, <<" ">>, L35_1) >>

RECURSIVE Concat(_)
Concat(ss) == IF ss = <<>> THEN <<>> ELSE Head(ss) \o Concat(Tail(ss))

\* The host documents of the model: up to MaxRecs records.
Documents ==
    { Concat([k \in 1..Len(pick) |-> RecordTexts[pick[k]]]) :
        pick \in UNION { [1..n -> 1..Len(RecordTexts)] : n \in 0..MaxRecs } }

\* ------------------------------------------------------------------ lookups
THRESHOLD_KM == 3

\* What nominatim_lookup can return for one query: a failure "No result" (empty
\* result set), a failure "ERROR: ..." (any exception of the request or of the
\* parsing), or the first candidate's coordinates. The two candidates lie
\* within and beyond THRESHOLD_KM of every stored point of the documents.
nominatim_lookup(name) ==
    { [ok |-> FALSE, lat |-> 0, lng |-> 0, display |-> "No result"],
      [ok |-> FALSE, lat |-> 0, lng |-> 0, display |-> "ERROR"],
      [ok |-> TRUE, lat |-> 3250010, lng |-> 3512000, display |-> "near"],
      [ok |-> TRUE, lat |-> 3254037, lng |-> 3510000, display |-> "far"] }

\* haversine_km in metres, rounded down, on the points of the model: the
\* values the source's formula gives with R = 6371 (none within a metre of
\* THRESHOLD_KM).
haversine_km(lat1, lng1, lat2, lng2) ==
    CASE <<lat1, lng1, lat2, lng2>> = <<3250010, 3510000, 3250010, 3512000>> -> 1875
      [] <<lat1, lng1, lat2, lng2>> = <<3250010, 3510000, 3254037, 3510000>> -> 4477
      [] <<lat1, lng1, lat2, lng2>> = <<3250010, 3515000, 3250010, 3512000>> -> 2813
      [] <<lat1, lng1, lat2, lng2>> = <<3250010, 3515000, 3254037, 3510000>> -> 6482
      [] <<lat1, lng1, lat2, lng2>> = <<3250000, 3510000, 3250010, 3512000>> -> 1875
      [] <<lat1, lng1, lat2, lng2>> = <<3250000, 3510000, 3254037, 3510000>> -> 4488

\* dist <= THRESHOLD_KM
WithinThreshold(dist) == dist <= THRESHOLD_KM * 1000

\* non_polygon without the SKIP_NAMES test.
non_polygon_only(ts) == SelectSeq(ts, LAMBDA t : t.name \notin POLYGON_TOWNS)

\* [(n, la, ln) for n, la, ln in towns if n not in POLYGON_TOWNS and n not in SKIP_NAMES]
non_polygon(ts) ==
    SelectSeq(ts, LAMBDA t : t.name \notin POLYGON_TOWNS /\ t.name \notin SKIP_NAMES)

\* ------------------------------------------------------------------ inputs
\* The PATCHES entries of the model: a correction, a correction whose old
\* latitude prints as "32.5", and an entry whose old and new values are equal.
PatchEntries ==
    << [name |-> Turan, old_lat |-> 3250010, old_lng |-> 3510000,
        new_lat |-> 3250010, new_lng |-> 3512000],
       [name |-> Harish, old_lat |-> 3250000, old_lng |-> 3510000,
        new_lat |-> 3254040, new_lng |-> 3510000],
       [name |-> Harish, old_lat |-> 3250000, old_lng |-> 3510000,
        new_lat |-> 3250000, new_lng |-> 3510000] >>

\* The PATCHES tables of the model: up to MaxPatches entries, repeats allowed.
PatchTables ==
    { [k \in 1..Len(pick) |-> PatchEntries[pick[k]]] :
        pick \in UNION { [1..n -> 1..Len(PatchEntries)] : n \in 0..MaxPatches } }

\* The arguments a single apply_fix call is tried with.
FixArgs ==
    { [name |-> n, old_lat |-> o[1], old_lng |-> o[2], new_lat |-> w[1], new_lng |-> w[2]] :
        n \in {Turan, Harish},
        o \in {<<3250010, 3510000>>, <<3250010, 3515000>>, <<3250000, 3510000>>},
        w \in {<<3250010, 3512000>>, <<3254037, 3510000>>} }

NoArgs == [name |-> <<>>, old_lat |-> 0, old_lng |-> 0, new_lat |-> 0, new_lng |-> 0]
NoLookup == [ok |-> FALSE, lat |-> 0, lng |-> 0, display |-> ""]

\* ------------------------------------------------------------------ state
VARIABLES
    script,      \* which program runs: "verified" (apply_verified_coords.py),
                 \* "validate" (validate_coords.main) or "fix" (apply_fix alone)
    pc,          \* its position
    file,        \* index.html on disk
    content,     \* apply_verified_coords: the text in memory
    patches,     \* apply_verified_coords: PATCHES
    idx,         \* the loop's next entry (1-based)
    seen, patched, skipped,                       \* apply_verified_coords
    towns, apply_mode, applied, flagged, ok_count,  \* validate_coords.main
    cur,         \* validate_coords.main: (osm_lat, osm_lng, display)
    log,         \* what the run did and printed, in order
    args,        \* "fix": the arguments of the call
    calls        \* "fix": each call's result, by implementation

vars == <<script, pc, file, content, patches, idx, seen, patched, skipped,
          towns, apply_mode, applied, flagged, ok_count, cur, log, args, calls>>

Ev(e, n, k, a) == [ev |-> e, name |-> n, k |-> k, arg |-> a]

Init ==
    /\ script \in {"verified", "validate", "fix"}
    /\ pc = "start"
    /\ file \in Documents
    /\ content = <<>>
    /\ patches \in (IF script = "verified" THEN PatchTables ELSE {<<>>})
    /\ idx = 1
    /\ seen = {}
    /\ patched = 0
    /\ skipped = 0
    /\ towns = <<>>
    /\ apply_mode \in (IF script = "validate" THEN BOOLEAN ELSE {FALSE})
    /\ applied = <<>>
    /\ flagged = <<>>
    /\ ok_count = 0
    /\ cur = NoLookup
    /\ log = <<>>
    /\ args \in (IF script = "fix" THEN FixArgs ELSE {NoArgs})
    /\ calls = <<>>

\* ------------------------------------------------------------------ apply_verified_coords.py
\* name in seen
InSeenNever(name, names) == FALSE
InSeen(name, names) == name \in names

\* with open(html_path) as f: content = f.read(); patched = skipped = 0; seen = set()
ReadFile ==
    /\ script = "verified" /\ pc = "start"
    /\ content' = file
    /\ pc' = "loop"
    /\ UNCHANGED <<script, file, patches, idx, seen, patched, skipped, towns,
                   apply_mode, applied, flagged, ok_count, cur, log, args, calls>>

\* if name in seen: continue
SkipSeen ==
    /\ script = "verified" /\ pc = "loop" /\ idx <= Len(patches)
    /\ InSeen(patches[idx].name, seen)
    /\ idx' = idx + 1
    /\ UNCHANGED <<script, pc, file, content, patches, seen, patched, skipped, towns,
                   apply_mode, applied, flagged, ok_count, cur, log, args, calls>>

\* seen.add(name); if old_lat == new_lat and old_lng == new_lng: skipped += 1; continue
SkipNoop ==
    /\ script = "verified" /\ pc = "loop" /\ idx <= Len(patches)
    /\ ~InSeen(patches[idx].name, seen)
    /\ patches[idx].old_lat = patches[idx].new_lat
    /\ patches[idx].old_lng = patches[idx].new_lng
    /\ seen' = seen \cup {patches[idx].name}
    /\ skipped' = skipped + 1
    /\ idx' = idx + 1
    /\ log' = Append(log, Ev("noop", patches[idx].name, idx, FALSE))
    /\ UNCHANGED <<script, pc, file, content, patches, patched, towns,
                   apply_mode, applied, flagged, ok_count, cur, args, calls>>

\* seen.add(name); content, changed = apply_fix(content, ...); PATCHED or MISS
ApplyPatch ==
    /\ script = "verified" /\ pc = "loop" /\ idx <= Len(patches)
    /\ ~InSeen(patches[idx].name, seen)
    /\ ~(patches[idx].old_lat = patches[idx].new_lat
         /\ patches[idx].old_lng = patches[idx].new_lng)
    /\ LET e == patches[idx]
           r == apply_fix(content, e.name, e.old_lat, e.old_lng, e.new_lat, e.new_lng)
       IN /\ content' = r.content
          /\ patched' = IF r.changed THEN patched + 1 ELSE patched
          /\ log' = log \o << Ev("apply_fix", e.name, idx, r.changed),
                              Ev("report", e.name, idx,
                                 IF r.changed THEN "PATCHED" ELSE "MISS") >>
    /\ seen' = seen \cup {patches[idx].name}
    /\ idx' = idx + 1
    /\ UNCHANGED <<script, pc, file, patches, skipped, towns,
                   apply_mode, applied, flagged, ok_count, cur, args, calls>>

\* WriteFile without the write.
WriteFileOmitted ==
    /\ script = "verified" /\ pc = "loop" /\ idx > Len(patches)
    /\ log' = Append(log, Ev("summary", <<>>, 0, patched))
    /\ pc' = "done"
    /\ UNCHANGED <<script, file, content, patches, idx, seen, patched, skipped, towns,
                   apply_mode, applied, flagged, ok_count, cur, args, calls>>

\* with open(html_path, "w") as f: f.write(content); print(f"Done: {patched} patched, ...")
WriteFile ==
    /\ script = "verified" /\ pc = "loop" /\ idx > Len(patches)
    /\ file' = content
    /\ log' = log \o << Ev("write", <<>>, 0, TRUE), Ev("summary", <<>>, 0, patched) >>
    /\ pc' = "done"
    /\ UNCHANGED <<script, content, patches, idx, seen, patched, skipped, towns,
                   apply_mode, applied, flagged, ok_count, cur, args, calls>>

\* ------------------------------------------------------------------ validate_coords.main
\* towns = parse_towns(html_path); non_polygon = [...]; applied = flagged = []; ok_count = 0
Parse ==
    /\ script = "validate" /\ pc = "start"
    /\ towns' = non_polygon(parse_towns(file))
    /\ pc' = "loop"
    /\ UNCHANGED <<script, file, content, patches, idx, seen, patched, skipped,
                   apply_mode, applied, flagged, ok_count, cur, log, args, calls>>

\* Sleep with the sleep left out after a failed lookup.
SleepNotAfterFailure ==
    /\ script = "validate" /\ pc = "loop" /\ idx <= Len(towns)
    /\ log' = IF idx > 1 /\ ~cur.ok THEN log
              ELSE Append(log, Ev("sleep", towns[idx].name, idx, TRUE))
    /\ pc' = "lookup"
    /\ UNCHANGED <<script, file, content, patches, idx, seen, patched, skipped, towns,
                   apply_mode, applied, flagged, ok_count, cur, args, calls>>

\* for name, stored_lat, stored_lng in non_polygon: time.sleep(1.1)
Sleep ==
    /\ script = "validate" /\ pc = "loop" /\ idx <= Len(towns)
    /\ log' = Append(log, Ev("sleep", towns[idx].name, idx, TRUE))
    /\ pc' = "lookup"
    /\ UNCHANGED <<script, file, content, patches, idx, seen, patched, skipped, towns,
                   apply_mode, applied, flagged, ok_count, cur, args, calls>>

\* osm_lat, osm_lng, display = nominatim_lookup(name)
Lookup ==
    /\ script = "validate" /\ pc = "lookup"
    /\ \E r \in nominatim_lookup(towns[idx].name) :
          /\ cur' = r
          /\ log' = Append(log, Ev("lookup", towns[idx].name, idx, r.ok))
    /\ pc' = "handle"
    /\ UNCHANGED <<script, file, content, patches, idx, seen, patched, skipped, towns,
                   apply_mode, applied, flagged, ok_count, args, calls>>

\* LookupFailed with the failure ending the run.
LookupFailedAborts ==
    /\ script = "validate" /\ pc = "handle"
    /\ ~cur.ok
    /\ pc' = "aborted"
    /\ UNCHANGED <<script, file, content, patches, idx, seen, patched, skipped, towns,
                   apply_mode, applied, flagged, ok_count, cur, log, args, calls>>

\* if osm_lat is None: print(... LOOKUP FAILED ...); continue
LookupFailed ==
    /\ script = "validate" /\ pc = "handle"
    /\ ~cur.ok
    /\ log' = Append(log, Ev("report", towns[idx].name, idx, "LOOKUP FAILED"))
    /\ idx' = idx + 1
    /\ pc' = "loop"
    /\ UNCHANGED <<script, file, content, patches, seen, patched, skipped, towns,
                   apply_mode, applied, flagged, ok_count, cur, args, calls>>

\* The stored point's distance to the looked-up one.
Dist == haversine_km(towns[idx].lat, towns[idx].lng, cur.lat, cur.lng)

\* if dist <= THRESHOLD_KM: print(... OK); ok_count += 1
ReportOK ==
    /\ script = "validate" /\ pc = "handle"
    /\ cur.ok
    /\ WithinThreshold(Dist)
    /\ log' = Append(log, Ev("report", towns[idx].name, idx, "OK"))
    /\ ok_count' = ok_count + 1
    /\ idx' = idx + 1
    /\ pc' = "loop"
    /\ UNCHANGED <<script, file, content, patches, seen, patched, skipped, towns,
                   apply_mode, applied, flagged, cur, args, calls>>

\* Patch without the apply_mode test.
PatchInAnyMode ==
    /\ script = "validate" /\ pc = "handle"
    /\ cur.ok
    /\ ~WithinThreshold(Dist)
    /\ LET t == towns[idx]
           r == apply_fix_file(file, t.name, t.lat, t.lng, cur.lat, cur.lng)
       IN /\ file' = r.content
          /\ log' = log \o << Ev("apply_fix", t.name, idx, r.changed),
                              Ev("report", t.name, idx,
                                 IF r.changed THEN "PATCHED" ELSE "PATCH FAILED") >>
          /\ applied' = Append(applied, [name |-> t.name, dist |-> Dist])
    /\ idx' = idx + 1
    /\ pc' = "loop"
    /\ UNCHANGED <<script, content, patches, seen, patched, skipped, towns,
                   apply_mode, flagged, ok_count, cur, args, calls>>

\* else, if apply_mode: patched = apply_fix(html_path, ...); applied.append(...)
Patch ==
    /\ script = "validate" /\ pc = "handle"
    /\ cur.ok
    /\ ~WithinThreshold(Dist)
    /\ apply_mode
    /\ LET t == towns[idx]
           r == apply_fix_file(file, t.name, t.lat, t.lng, cur.lat, cur.lng)
       IN /\ file' = r.content
          /\ log' = log \o << Ev("apply_fix", t.name, idx, r.changed),
                              Ev("report", t.name, idx,
                                 IF r.changed THEN "PATCHED" ELSE "PATCH FAILED") >>
          /\ applied' = Append(applied, [name |-> t.name, dist |-> Dist])
    /\ idx' = idx + 1
    /\ pc' = "loop"
    /\ UNCHANGED <<script, content, patches, seen, patched, skipped, towns,
                   apply_mode, flagged, ok_count, cur, args, calls>>

\* else, in a dry run: status = "*** CHECK ***"; flagged.append(...)
Flag ==
    /\ script = "validate" /\ pc = "handle"
    /\ cur.ok
    /\ ~WithinThreshold(Dist)
    /\ ~apply_mode
    /\ log' = Append(log, Ev("report", towns[idx].name, idx, "*** CHECK ***"))
    /\ flagged' = Append(flagged, [name |-> towns[idx].name, dist |-> Dist])
    /\ idx' = idx + 1
    /\ pc' = "loop"
    /\ UNCHANGED <<script, file, content, patches, seen, patched, skipped, towns,
                   apply_mode, applied, ok_count, cur, args, calls>>

\* print(f"SUMMARY: {ok_count} ..., {len(applied)} patched in index.html") or
\* print(f"SUMMARY: {ok_count} OK, {len(flagged)} flagged ...")
Summary ==
    /\ script = "validate" /\ pc = "loop" /\ idx > Len(towns)
    /\ log' = Append(log, Ev("summary", <<>>, 0,
                             IF apply_mode THEN Len(applied) ELSE Len(flagged)))
    /\ pc' = "done"
    /\ UNCHANGED <<script, file, content, patches, idx, seen, patched, skipped, towns,
                   apply_mode, applied, flagged, ok_count, cur, args, calls>>

\* ------------------------------------------------------------------ apply_fix alone
\* One more call of both apply_fix with the same arguments, each on the text
\* its previous call left (the first on the document).
Apply ==
    /\ script = "fix" /\ pc = "start" /\ Len(calls) < 2
    /\ LET dv == IF calls = <<>> THEN file ELSE content
           rv == apply_fix(dv, args.name, args.old_lat, args.old_lng,
                           args.new_lat, args.new_lng)
           rf == apply_fix_file(file, args.name, args.old_lat, args.old_lng,
                                args.new_lat, args.new_lng)
       IN /\ content' = rv.content
          /\ file' = rf.content
          /\ calls' = Append(calls, [doc_in |-> dv, doc_out |-> rv.content,
                                     changed |-> rv.changed,
                                     file_in |-> file, file_out |-> rf.content,
                                     returned |-> rf.changed])
    /\ UNCHANGED <<script, pc, patches, idx, seen, patched, skipped, towns,
                   apply_mode, applied, flagged, ok_count, cur, log, args>>

Next ==
    \/ ReadFile \/ SkipSeen \/ SkipNoop \/ ApplyPatch \/ WriteFile
    \/ Parse \/ Sleep \/ Lookup \/ LookupFailed \/ ReportOK \/ Patch \/ Flag \/ Summary
    \/ Apply

Spec == Init /\ [][Next]_vars

\* ------------------------------------------------------------------ claims
\* The records of a document as the text holds them: name, the two literals
\* and where each literal starts.
Recs(d) == TownsFrom(d, 1)

\* The records of d for a.name whose two literals are, in full, str(old_lat)
\* and str(old_lng).
ExactRecs(d, a) ==
    {k \in 1..Len(Recs(d)) : /\ Recs(d)[k].name = a.name
                             /\ Recs(d)[k].lat = PyStr(a.old_lat)
                             /\ Recs(d)[k].lng = PyStr(a.old_lng)}

\* d with the two literals of its first such record replaced by the new values
\* at four decimals, and d itself when it has no such record.
Expected(d, a) ==
    IF ExactRecs(d, a) = {} THEN d
    ELSE LET r == Recs(d)[MinOf(ExactRecs(d, a))]
         IN Slice(d, 1, r.latFrom - 1) \o Fmt4(a.new_lat)
            \o Slice(d, r.latFrom + Len(r.lat), r.lngFrom - 1) \o Fmt4(a.new_lng)
            \o Slice(d, r.lngFrom + Len(r.lng), Len(d))

\* C1: idempotence of apply_fix. When the first call changed the document, a
\* second call with the same arguments on the result reports no change and
\* leaves the text as it is; for both implementations.
C1_Idempotent ==
    (script = "fix" /\ Len(calls) = 2) =>
        /\ calls[1].changed => (~calls[2].changed /\ calls[2].doc_out = calls[2].doc_in)
        /\ calls[1].returned => (~calls[2].returned /\ calls[2].file_out = calls[2].file_in)

\* C2: frame of apply_fix. A call rewrites the first record whose name and two
\* literals match the old values, replacing exactly the two literals by the new
\* values at four decimals, and nothing else; for both implementations.
C2_Frame ==
    \A j \in 1..Len(calls) :
        /\ calls[j].doc_out = Expected(calls[j].doc_in, args)
        /\ calls[j].file_out = Expected(calls[j].file_in, args)

\* Every record the call left differing (by index) had both literals equal, in full, to
\* the old values; and with no such record the call reports no change.
ExactOnly(before, after, flag) ==
    /\ Len(Recs(after)) = Len(Recs(before))
    /\ \A k \in 1..Len(Recs(before)) :
          (Recs(after)[k].lat # Recs(before)[k].lat \/ Recs(after)[k].lng # Recs(before)[k].lng)
              => k \in ExactRecs(before, args)
    /\ ExactRecs(before, args) = {} => (~flag /\ after = before)

\* C3: exact literal match. apply_fix rewrites a record only if its latitude
\* and longitude literals are textually equal, in full, to str(old_lat) and
\* str(old_lng); with no such record it returns changed = false and the
\* document is unmodified; for both implementations.
C3_ExactLiteralMatch ==
    \A j \in 1..Len(calls) :
        /\ ExactOnly(calls[j].doc_in, calls[j].doc_out, calls[j].changed)
        /\ ExactOnly(calls[j].file_in, calls[j].file_out, calls[j].returned)

\* The positions of the log's events of kind e.
Events(e) == {j \in 1..Len(log) : log[j].ev = e}

\* The names the exclusion sets hold.
Excluded == POLYGON_TOWNS \cup SKIP_NAMES

\* C4 as stated: in both batch drivers no name is looked up twice and no name
\* gets two patch attempts.
C4_DedupBothDrivers ==
    \A e \in {"lookup", "apply_fix"} :
        \A i, j \in Events(e) : log[i].name = log[j].name => i = j

\* C4, amended: the PATCHES loop handles each name at most once (one patch
\* attempt or one no-op), and seen holds the names of the entries it has
\* passed; validate_coords.main looks each record up at most once, not each name.
C4_DedupPatchesLoop ==
    /\ script = "verified" =>
          /\ \A i, j \in Events("apply_fix") \cup Events("noop") :
                log[i].name = log[j].name => i = j
          /\ pc # "start" => seen = {patches[k].name : k \in 1..(idx - 1)}
    /\ script = "validate" =>
          \A i, j \in Events("lookup") : log[i].k = log[j].k => i = j

\* A finished run of the PATCHES loop over a table that names a place twice.
C4_Witness ==
    /\ script = "verified" /\ pc = "done"
    /\ \E i, j \in 1..Len(patches) : i < j /\ patches[i].name = patches[j].name
    /\ Events("apply_fix") # {}

\* C5: exclusion sets. In validate_coords.main no sleep, lookup, report line or
\* apply_fix call is ever made for a name in POLYGON_TOWNS or SKIP_NAMES.
C5_ExclusionSets ==
    script = "validate" => \A j \in 1..Len(log) : log[j].name \notin Excluded

\* A finished run that looked a place up, on a document that also holds a
\* record of each exclusion set.
C5_Witness ==
    /\ script = "validate" /\ pc = "done"
    /\ Events("lookup") # {}
    /\ \E t \in {parse_towns(file)[k] : k \in 1..Len(parse_towns(file))} :
          t.name \in Excluded

\* The lookups that failed, and those that succeeded, whose record has been
\* handled since.
HandledLookups(ok) ==
    {j \in Events("lookup") : log[j].arg = ok /\ j < Len(log)}

\* A failed lookup is followed by the line LOOKUP FAILED for its record, which
\* gets no other report and no patch attempt and is counted nowhere; a
\* finished run has looked up every record.
FailuresSkipped ==
    script = "validate" =>
        /\ \A j \in HandledLookups(FALSE) :
              /\ log[j + 1] = Ev("report", log[j].name, log[j].k, "LOOKUP FAILED")
              /\ \A i \in (Events("report") \cup Events("apply_fix")) \ {j + 1} :
                    log[i].k # log[j].k
        /\ ok_count + Len(applied) + Len(flagged) = Cardinality(HandledLookups(TRUE))
        /\ pc = "done" => Cardinality(Events("lookup")) = Len(towns)

\* C6: lookup failures are not fatal. A failed lookup is reported LOOKUP
\* FAILED, not classified, patched or counted, the run goes on to every
\* remaining record, and validate_coords.main is never stopped short of its
\* summary: it is at a step of the loop or has printed the summary.
C6_LookupFailureNonFatal ==
    /\ FailuresSkipped
    /\ script = "validate" =>
          /\ pc \in {"start", "loop", "lookup", "handle", "done"}
          /\ pc \in {"lookup", "handle"} => idx <= Len(towns)
          /\ pc = "done" => (idx = Len(towns) + 1 /\ log[Len(log)].ev = "summary")

\* A finished run whose first lookup failed and whose second succeeded.
C6_Witness ==
    /\ script = "validate" /\ pc = "done"
    /\ \E i, j \in Events("lookup") :
          /\ log[i].k = 1 /\ ~log[i].arg
          /\ log[j].k = 2 /\ log[j].arg

\* C7: write guard. validate_coords.main changes index.html only in write
\* mode, handling a record whose lookup succeeded at more than THRESHOLD_KM;
\* a dry run never changes it; a record within THRESHOLD_KM is reported OK and
\* the file is left alone.
C7_WriteGuard ==
    [][script = "validate" =>
          /\ file' # file =>
                (apply_mode /\ pc = "handle" /\ cur.ok /\ Dist > THRESHOLD_KM * 1000)
          /\ ~apply_mode => file' = file
          /\ (pc = "handle" /\ cur.ok /\ Dist <= THRESHOLD_KM * 1000) =>
                /\ file' = file
                /\ log' = Append(log, Ev("report", towns[idx].name, idx, "OK"))]_vars

\* A run in write mode that has reported one record OK and patched another.
C7_Witness ==
    /\ script = "validate" /\ apply_mode
    /\ \E i, j \in Events("report") : log[i].arg = "OK" /\ log[j].arg = "PATCHED"

\* C8: rate limit. Every lookup is immediately preceded by the sleep of its
\* own record, every record passed has exactly one lookup, for its own name,
\* and a finished run has looked up each non-excluded record once.
C8_RateLimit ==
    script = "validate" =>
        /\ \A j \in Events("lookup") :
              /\ j > 1
              /\ log[j - 1].ev = "sleep" /\ log[j - 1].k = log[j].k
              /\ log[j].name = towns[log[j].k].name
        /\ \A k \in 1..(idx - 1) :
              Cardinality({j \in Events("lookup") : log[j].k = k}) = 1
        /\ \A j \in Events("lookup") : log[j].k <= idx
        /\ pc = "done" =>
              Cardinality(Events("lookup")) = Cardinality(Events("sleep"))

\* A run that has made a second lookup after a failed one.
C8_Witness ==
    /\ script = "validate"
    /\ \E i, j \in Events("lookup") : i < j /\ ~log[i].arg

\* The step reports a record PATCHED.
PatchedNow ==
    /\ Len(log') > Len(log)
    /\ log'[Len(log')].ev = "report"
    /\ log'[Len(log')].arg = "PATCHED"

\* C9 as stated: in both batch drivers the step that patches a record writes
\* index.html, so the file holds the patch when the next record starts.
C9_EveryPatchWrittenAtOnce == [][PatchedNow => file' # file]_vars

\* C9, amended: validate_coords.main writes each successful patch to
\* index.html in the step that handles the record; apply_verified_coords.py
\* keeps its patches in memory, leaves the file alone during the PATCHES loop
\* and writes the patched text once, after the loop.
C9_WriteBackPerDriver ==
    [][/\ (script = "validate" /\ PatchedNow) => (file' # file /\ idx' = idx + 1)
       /\ (script = "verified" /\ pc = "loop" /\ pc' = "loop") => file' = file
       /\ (script = "verified" /\ pc = "loop" /\ pc' = "done") =>
             (file' = content /\ content' = content)]_vars

\* The PATCHES loop between two entries, with a patch in memory that the file
\* does not hold.
C9_Witness ==
    script = "verified" /\ pc = "loop" /\ patched > 0 /\ file # content

\* C10: summary counts. The number a finished run reports as patched is the
\* number of apply_fix calls that returned true (patched in
\* apply_verified_coords.py, len(applied) in validate_coords.main --apply).
C10_SummaryCountsPatched ==
    (pc = "done" /\ (script = "verified" \/ (script = "validate" /\ apply_mode))) =>
        log[Len(log)].arg = Cardinality({j \in Events("apply_fix") : log[j].arg})

\* C11: the two apply_fix agree. Called with the same arguments on the same
\* text, validate_coords.apply_fix leaves in the file the text that
\* apply_verified_coords.apply_fix returns, and returns the same flag.
C11_ImplementationsAgree ==
    \A j \in 1..Len(calls) :
        calls[j].file_in = calls[j].doc_in =>
            /\ calls[j].file_out = calls[j].doc_out
            /\ calls[j].returned = calls[j].changed

====
